---- MODULE Spec2Model ----
(***************************************************************************)
(* Model of the per-track acquisition pipeline of MusicRipper:             *)
(* SpotifyDownloader.download_song and _execute_download_attempt           *)
(* (src/src/spotify_downloader.py) with the transcode and validation steps *)
(* of src/src/audio_processor.py.                                          *)
(*                                                                         *)
(* Seven specifications share the module:                                  *)
(*   Spec          calls of download_song on one track's directory         *)
(*   ValidateSpec  one call of validate_mp3_320kbps, step by step          *)
(*   MainSpec      one run of main() with process_tracks                   *)
(*   SanitizeSpec  one call of sanitize_filename and what its caller does  *)
(*   NamingSpec    process_tracks on two tracks: the paths download_song   *)
(*                 derives and the artifacts it leaves at them             *)
(*   PlaylistSpec  one call of get_playlist_tracks                         *)
(*   CachedSpec    the existing-file branch of download_song on every      *)
(*                 sidecar its read distinguishes                          *)
(* Each leaves the variables of the others at their idle values.           *)
(*                                                                         *)
(* The file system is the download directory of one track: the final       *)
(* artifact, its JSON sidecar and the temporary workspace _temp_dl_<key>.  *)
(* Every external call (search, probe, download, cover fetch, transcode,   *)
(* file removal, directory creation) is a nondeterministic choice over the *)
(* outcomes the code distinguishes.                                        *)
(***************************************************************************)
EXTENDS Integers, Sequences, FiniteSets, TLC

\* ------------------------------------------------------------------ bounds
\* Largest number of entries one search returns in the model.
MaxEntries == 4

\* Largest number of tracks of a playlist in the model.
MaxTracks == 3

\* Longest text handed to sanitize_filename in the model.
MaxTextLen == 4

\* ------------------------------------------------------- program constants
MAX_SEARCH_RESULTS_PER_SOURCE == 3
MIN_DURATION_PREFILTER_SECONDS == 45
MIN_AUDIO_BITRATE_KBPS == 128

\* sources_to_try of download_song, in the order the for loop visits them.
SourcesToTry == <<"SoundCloud", "YouTube">>

SourceNames == {"SoundCloud", "YouTube"}

\* existing_source default of the cached path.
UnknownExisting == "Unknown/Existing"

\* ------------------------------------------------------------ value spaces
\* entry.get('duration'): absent (None) or a number of seconds.
NoDuration == 0 - 1
Durations == {NoDuration, 44, 45}

\* A search entry as the candidate loop reads it.  isNone is a None entry in
\* the 'entries' list, on which entry.get raises AttributeError.
EntryKinds == [isNone : BOOLEAN, url : BOOLEAN, duration : Durations]
NoEntry == [isNone |-> FALSE, url |-> FALSE, duration |-> NoDuration]

\* abr / tbr of the detailed metadata: absent (None) or kbps.
NoBitrate == 0 - 1
Bitrates == {NoBitrate, 127, 128}
ProbeInfos == [abr : Bitrates, vcodecNone : BOOLEAN, tbr : Bitrates]
NoInfo == [abr |-> NoBitrate, vcodecNone |-> FALSE, tbr |-> NoBitrate]

\* Outcome of extract_info(entry_url, download=False) at line 164: an
\* exception (no metadata), or the metadata.
ProbeResults ==
    {[err |-> TRUE, info |-> NoInfo]}
    \cup {[err |-> FALSE, info |-> x] : x \in ProbeInfos}
NoProbe == [err |-> FALSE, info |-> NoInfo]

\* Contents of the sidecar file <name>.json:
\*   none        no file
\*   unreadable  open() raises PermissionError / OSError
\*   corrupt     not JSON, json.load raises JSONDecodeError
\*   nonobject   valid JSON that is not an object (list, number, string)
\*   nosource    a JSON object without the key download_source
\*   a source name: a JSON object whose download_source is that name
\* These are what download_song writes and what damage makes of it.
SidecarKinds == {"none", "unreadable", "corrupt", "nonobject", "nosource"}
                   \cup SourceNames

\* A sidecar written by something else may also be
\*   nullsource  a JSON object whose download_source is null
ForeignSidecarKinds == SidecarKinds \cup {"nullsource"}

\* The file at final_mp3_path: "none", or a file with the verdict
\* validate_mp3_320kbps gives it for this track and the attempt it came from
\* ("old" = present before the first call).
NoFile == [exists |-> FALSE, valid |-> FALSE, from |-> "none"]
File(v, f) == [exists |-> TRUE, valid |-> v, from |-> f]

\* Return value / exception of one download_song call.
NoResult == [kind |-> "none", path |-> "none", source |-> "none"]
Returned(p, s) == [kind |-> "returned", path |-> p, source |-> s]
Raised(e) == [kind |-> "raised", path |-> "none", source |-> e]

ZeroCounts == [probe |-> 0, download |-> 0, cover |-> 0,
               transcode |-> 0, validate |-> 0]

VARIABLES
    pc,          \* position of the control flow inside download_song
                 \* and _execute_download_attempt
    finalFile,   \* file at final_mp3_path
    sidecar,     \* file at metadata_json_path
    tempDir,     \* song_specific_temp_base exists
    tempFiles,   \* what song_specific_temp_base holds: "stale" (left by an
                 \* earlier call), "cover", "raw_downloads" (per-source
                 \* folders), "raw" (downloaded audio)
    hasCover,    \* track_info['cover_art_url'] is set
    trackSource, \* track_info['download_source'] ("absent" when not set)
    coverPath,   \* temp_cover_image_path is not None
    src,         \* index into SourcesToTry of the loop at line 303
    nEntries,    \* len(search_entries) of the current source
    i,           \* 1-based rank of the entry the candidate loop is at
    cur,         \* the entry under consideration
    probed,      \* outcome of the bitrate probe of cur, until the bitrate
                 \* check has used it
    status,      \* per rank of the current source: "none" (not reached),
                 \* "closed" (skipped, rejected or failed to download),
                 \* "downloaded", "malformed" (raised)
    srcDone,     \* sources whose loop iteration has ended
    searched,    \* sources searched by the current call, in order
    emptySearch, \* sources whose search failed or returned no entry
    raw,         \* raw_audio_path_from_source: <<>> or <<source, rank>>
    won,         \* final_validated_mp3_path is set
    wonSource,   \* successful_source_name
    n,           \* number of external operations issued by the current call
    ioFailed,    \* operations of the current call whose exception was
                 \* caught: "final" (os.remove of the final path), "temp"
                 \* (rmtree of the workspace), "sidecar" (the sidecar
                 \* write), "cover" (the cover art fetch), "stale" (rmtree
                 \* of the workspace an earlier call left, when it raised
                 \* with contents still in the directory)
    cached,      \* the current call took the existing-file branch (line 267)
    result,      \* outcome of the current call
    prevCached,  \* the previous call returned through the existing-file branch
    prev,        \* the pair the previous call returned, when it returned an
                 \* artifact (NoResult otherwise)
    vpc,         \* position inside one call of validate_mp3_320kbps
                 \* (audio_processor.py), "off" outside ValidateSpec
    vin,         \* arguments, probe answers and configuration of that call
    vactual,     \* actual_duration_ms (NoMs while not determined)
    vres,        \* what the call did: "none" (running), "True", "False",
                 \* "raised"
    mpc,         \* position inside main() and process_tracks (main.py),
                 \* "off" outside MainSpec
    credentials, \* which of SPOTIPY_CLIENT_ID, SPOTIPY_CLIENT_SECRET are set
    constructions, \* calls of the SpotifyDownloader constructor
    fetches,     \* calls of get_playlist_tracks
    nTracks,     \* len(tracks)
    outcomes,    \* what download_song did for each track attempted so far,
                 \* in the order of the calls
    attempted,   \* positions in tracks of the calls of download_song
    downloaded_songs, \* positions of the tracks appended to it, in order
    failed_songs, \* positions of the tracks appended to it, in order
    reports,     \* error messages main printed on the console, in order
    mainResult,  \* "none" (running), "returned", "raised"
    spc,         \* position inside one call of sanitize_filename (utils.py)
                 \* and its caller, "off" outside SanitizeSpec
    text,        \* the argument of that call
    swork,       \* sanitized_name while it is rewritten
    sres,        \* what the call did: "none" (running), "returned",
                 \* "TypeError", "ValueError"
    call,        \* the caller, the name it goes on with, and whether the
                 \* exception left the caller
    tracks,      \* the track descriptors of a playlist (NamingSpec)
    finalPaths,  \* per track handed to download_song so far: the stem of
                 \* final_mp3_path and metadata_json_path
    workspaces,  \* per track: the name of song_specific_temp_base
    disk,        \* the audio files of the download directory, by the stem
                 \* of their path (NamingSpec)
    gpc,         \* position inside one call of get_playlist_tracks, "off"
                 \* outside PlaylistSpec
    playlist,    \* the items of the playlist on the service, in order
    fetched,     \* len(items): how many of them the pages fetched so far hold
    scanned,     \* how many items the loop at line 52 has visited
    track_list,  \* positions in the playlist of the tracks appended so far
    fetchFailed  \* an exception was caught at line 76

vars == <<pc, finalFile, sidecar, tempDir, tempFiles, hasCover, trackSource,
          coverPath, src, nEntries, i, cur, status, srcDone, searched, raw,
          won, wonSource, n, ioFailed, cached, result, prevCached, prev,
          emptySearch, probed, vpc, vin, vactual, vres, mpc, credentials,
          constructions, fetches, nTracks, outcomes, attempted,
          downloaded_songs, failed_songs, reports, mainResult, spc, text,
          swork, sres, call, tracks, finalPaths, workspaces, disk, gpc,
          playlist,
          fetched, scanned, track_list, fetchFailed>>

fsVars == <<finalFile, sidecar, tempDir, tempFiles>>
valVars == <<vpc, vin, vactual, vres>>
mainVars == <<mpc, credentials, constructions, fetches, nTracks, outcomes,
              attempted, downloaded_songs, failed_songs, reports, mainResult>>
sanVars == <<spc, text, swork, sres, call>>
namingVars == <<tracks, finalPaths, workspaces, disk>>
playlistVars == <<gpc, playlist, fetched, scanned, track_list, fetchFailed>>
extVars == <<sanVars, namingVars, playlistVars>>
auxVars == <<valVars, mainVars, extVars>>
loopVars == <<src, nEntries, i, cur, status, srcDone, searched, raw,
             probed>>
downloadVars == <<pc, fsVars, hasCover, trackSource, coverPath, loopVars,
                  emptySearch, won, wonSource, n, ioFailed, cached, result,
                  prevCached, prev>>

NoStatus == [r \in 1..MaxEntries |-> "none"]

\* No call of download_song has been made on the track.
NoCallYet ==
    /\ pc = "idle"
    /\ tempFiles = IF tempDir THEN {"stale"} ELSE {}
    /\ trackSource = "absent"
    /\ coverPath = FALSE
    /\ src = 0
    /\ nEntries = 0
    /\ i = 0
    /\ cur = NoEntry
    /\ status = NoStatus
    /\ srcDone = {}
    /\ searched = <<>>
    /\ raw = <<>>
    /\ won = FALSE
    /\ wonSource = "none"
    /\ n = ZeroCounts
    /\ ioFailed = {}
    /\ cached = FALSE
    /\ result = NoResult
    /\ prev = NoResult
    /\ prevCached = FALSE
    /\ emptySearch = {}
    /\ probed = NoProbe

DownloadInit ==
    /\ finalFile \in {NoFile, File(TRUE, "old"), File(FALSE, "old")}
    /\ sidecar \in SidecarKinds
    /\ tempDir \in BOOLEAN
    /\ hasCover \in BOOLEAN
    /\ NoCallYet

\* ------------------------------------------------------------- file system
\* shutil.rmtree(song_specific_temp_base): on success the directory and its
\* contents are gone; on OSError the directory is still there, with all of
\* its contents or with none of them.
RmtreeSkipped == {[ok |-> TRUE, dir |-> tempDir, files |-> tempFiles]}
RmtreeOutcomes ==
    {[ok |-> TRUE, dir |-> FALSE, files |-> {}],
     [ok |-> FALSE, dir |-> TRUE, files |-> tempFiles],
     [ok |-> FALSE, dir |-> TRUE, files |-> {}]}

\* os.remove(final_mp3_path) guarded by os.path.exists: the file is removed,
\* or os.remove raises OSError and the file stays.
RemoveForgotten(f) == {[ok |-> TRUE, file |-> f]}
RemoveOutcomes(f) ==
    IF f.exists
    THEN {[ok |-> TRUE, file |-> NoFile], [ok |-> FALSE, file |-> f]}
    ELSE {[ok |-> TRUE, file |-> f]}

\* ------------------------------------------------------------ download_song
\* Lines 224-262: entry of download_song; the locals are initialised.
Call ==
    /\ pc \in {"idle", "returned", "raised"}
    /\ pc' = "workspace"
    /\ prev' = IF result.kind = "returned" /\ result.path # "none"
               THEN result ELSE NoResult
    /\ prevCached' = (cached /\ result.kind = "returned")
    /\ emptySearch' = {}
    /\ result' = NoResult
    /\ coverPath' = FALSE
    /\ src' = 0
    /\ nEntries' = 0
    /\ i' = 0
    /\ cur' = NoEntry
    /\ status' = NoStatus
    /\ srcDone' = {}
    /\ searched' = <<>>
    /\ raw' = <<>>
    /\ won' = FALSE
    /\ wonSource' = "none"
    /\ n' = ZeroCounts
    /\ ioFailed' = {}
    /\ cached' = FALSE
    /\ tempFiles' = IF tempFiles = {} THEN {} ELSE {"stale"}
    /\ finalFile' = IF finalFile.exists THEN File(finalFile.valid, "old")
                    ELSE NoFile
    /\ UNCHANGED <<sidecar, tempDir, hasCover, trackSource>>
    /\ probed' = NoProbe
    /\ UNCHANGED auxVars

\* Lines 254-258: a stale workspace is removed (OSError swallowed), then
\* ensure_dir_exists creates it; os.makedirs may raise OSError, uncaught.
PrepareWorkspace ==
    /\ pc = "workspace"
    /\ \E rm \in (IF tempDir THEN RmtreeOutcomes
                  ELSE {[ok |-> TRUE, dir |-> FALSE, files |-> {}]}),
          mk \in BOOLEAN :
          /\ ioFailed' = IF rm.ok \/ rm.files = {} THEN ioFailed
                         ELSE ioFailed \cup {"stale"}
          /\ IF rm.dir
             THEN /\ tempDir' = TRUE
                  /\ tempFiles' = rm.files
                  /\ pc' = "check_existing"
                  /\ result' = result
             ELSE /\ tempDir' = mk
                  /\ tempFiles' = {}
                  /\ pc' = IF mk THEN "check_existing" ELSE "raised"
                  /\ result' = IF mk THEN result ELSE Raised("OSError")
    /\ UNCHANGED <<finalFile, sidecar, hasCover, trackSource, coverPath,
                   loopVars, won, wonSource, n, cached, prev,
                   prevCached, emptySearch>>
    /\ UNCHANGED auxVars

\* validate_mp3_320kbps(final_mp3_path, expected_duration_ms): False for a
\* missing file, otherwise the verdict on the file's contents.
validate_exists_only(f) == f.exists
validate_mp3_320kbps(f) == f.exists /\ f.valid

\* Lines 264-266 and 281-282: an existing file is validated.
CheckExisting ==
    /\ pc = "check_existing"
    /\ IF finalFile.exists
       THEN /\ n' = [n EXCEPT !.validate = @ + 1]
            /\ cached' = validate_mp3_320kbps(finalFile)
            /\ pc' = IF validate_mp3_320kbps(finalFile)
                     THEN "read_sidecar" ELSE "cover"
       ELSE /\ n' = n
            /\ cached' = FALSE
            /\ pc' = "cover"
    /\ UNCHANGED <<fsVars, hasCover, trackSource, coverPath, loopVars, won,
                   wonSource, ioFailed, result, prev, prevCached,
                   emptySearch>>
    /\ UNCHANGED auxVars

\* Lines 268-278: the source recorded in the sidecar.  The except clause
\* catches JSONDecodeError, PermissionError and OSError only: for JSON that
\* is not an object existing_meta.get raises AttributeError.  The default
\* of get stands in for a missing key only: a null download_source comes
\* back as None.
ExistingSourceIgnored(sc) ==
    [raises |-> FALSE, source |-> UnknownExisting]
ExistingSource(sc) ==
    CASE sc \in {"none", "unreadable", "corrupt", "nosource"} ->
            [raises |-> FALSE, source |-> UnknownExisting]
      [] sc = "nonobject" -> [raises |-> TRUE, source |-> "AttributeError"]
      [] sc = "nullsource" -> [raises |-> FALSE, source |-> "none"]
      [] OTHER -> [raises |-> FALSE, source |-> sc]

\* Lines 267-280: cached success.  shutil.rmtree at line 279 is unguarded.
ReturnExisting ==
    /\ pc = "read_sidecar"
    /\ LET es == ExistingSource(sidecar) IN
       IF es.raises
       THEN /\ pc' = "raised"
            /\ result' = Raised(es.source)
            /\ UNCHANGED <<tempDir, tempFiles, ioFailed>>
       ELSE \E rm \in RmtreeOutcomes :
            /\ tempDir' = rm.dir
            /\ tempFiles' = rm.files
            /\ ioFailed' = IF rm.ok THEN ioFailed ELSE ioFailed \cup {"temp"}
            /\ pc' = IF rm.ok THEN "returned" ELSE "raised"
            /\ result' = IF rm.ok THEN Returned("final", es.source)
                         ELSE Raised("OSError")
    /\ UNCHANGED <<finalFile, sidecar, hasCover, trackSource, coverPath,
                   loopVars, won, wonSource, n, cached, prev, prevCached,
                   emptySearch>>
    /\ UNCHANGED auxVars

\* Lines 286-296: requests.get, raise_for_status, the chunks written to a
\* NamedTemporaryFile (delete=False) in the workspace.  Outcomes:
\*   failed   an exception was caught and logged at line 296
\*   written  a cover_ file is in the workspace (whole or partial)
\*   path     temp_cover_image_path was assigned (line 293, the last
\*            statement of the with block)
\* The request or a write may fail before line 293; closing the file at
\* the end of the with block flushes it and may fail after line 293.
CoverOutcomes ==
    {[failed |-> FALSE, written |-> TRUE, path |-> TRUE],
     [failed |-> TRUE, written |-> FALSE, path |-> FALSE],
     [failed |-> TRUE, written |-> TRUE, path |-> FALSE],
     [failed |-> TRUE, written |-> TRUE, path |-> TRUE]}

\* Lines 284-296: the cover art is fetched into the workspace when the
\* track has a cover_art_url; any exception is logged and the call goes on.
FetchCoverArt ==
    /\ pc = "cover"
    /\ IF hasCover
       THEN /\ n' = [n EXCEPT !.cover = @ + 1]
            /\ \E c \in CoverOutcomes :
               /\ coverPath' = c.path
               /\ tempFiles' = IF c.written THEN tempFiles \cup {"cover"}
                               ELSE tempFiles
               /\ ioFailed' = IF c.failed THEN ioFailed \cup {"cover"}
                              ELSE ioFailed
       ELSE /\ n' = n
            /\ coverPath' = FALSE
            /\ tempFiles' = tempFiles
            /\ ioFailed' = ioFailed
    /\ pc' = "next_source"
    /\ UNCHANGED <<finalFile, sidecar, tempDir, hasCover, trackSource,
                   loopVars, won, wonSource, cached, result, prev,
                   prevCached, emptySearch>>
    /\ UNCHANGED auxVars

\* --------------------------------------------------------- the source loop
SourceName == IF src \in 1..Len(SourcesToTry) THEN SourcesToTry[src]
              ELSE "none"

\* Lines 303-322 and 85-102: the for loop takes the next source and calls
\* _execute_download_attempt, which first creates the per-source folder;
\* ensure_dir_exists at line 102 is outside every try block.
BeginSource ==
    /\ pc = "next_source"
    /\ IF src >= Len(SourcesToTry)
       THEN /\ pc' = "cleanup"
            /\ UNCHANGED <<src, tempFiles, result>>
       ELSE /\ src' = src + 1
            /\ \E mk \in BOOLEAN :
               /\ tempFiles' = IF mk
                               THEN tempFiles \cup {"raw_downloads"}
                               ELSE tempFiles
               /\ pc' = IF mk THEN "search" ELSE "raised"
               /\ result' = IF mk THEN result ELSE Raised("OSError")
    /\ nEntries' = 0
    /\ i' = 0
    /\ cur' = NoEntry
    /\ status' = NoStatus
    /\ raw' = <<>>
    /\ UNCHANGED <<finalFile, sidecar, tempDir, hasCover, trackSource,
                   coverPath, srcDone, searched, won, wonSource, n, ioFailed,
                   cached, prev, prevCached, emptySearch,
                   probed>>
    /\ UNCHANGED auxVars

\* Lines 104-134: the search.  A DownloadError or any other exception, an
\* empty result and a result without entries all make the attempt return
\* None; otherwise the entries are walked in the order returned.
Search ==
    /\ pc = "search"
    /\ searched' = Append(searched, SourceName)
    /\ \E failed \in BOOLEAN, cnt \in 0..MaxEntries :
       /\ failed => cnt = 0
       /\ nEntries' = cnt
       /\ i' = IF cnt = 0 THEN 0 ELSE 1
       /\ pc' = IF cnt = 0 THEN "attempt_returned" ELSE "consider"
       /\ emptySearch' = IF cnt = 0 THEN emptySearch \cup {SourceName}
                         ELSE emptySearch
    /\ UNCHANGED <<fsVars, hasCover, trackSource, coverPath, src, cur,
                   status, srcDone, raw, won, wonSource, n, ioFailed, cached,
                   result, prev, prevCached,
                   probed>>
    /\ UNCHANGED auxVars

\* enumerate(search_entries) at line 136: the rank after r.
NextRankSkipping(r) == r + 2
NextRank(r) == r + 1

\* Lines 136-138: the loop over search_entries ends after the last entry,
\* and breaks at index MAX_SEARCH_RESULTS_PER_SOURCE whatever the search
\* returned.
PastLastEntry(rank, count) == rank > count
PastLastCandidate(rank, count) ==
    rank > count \/ rank > MAX_SEARCH_RESULTS_PER_SOURCE

\* Lines 136-144 and 221-222: the loop head.  Past the last entry, or past
\* MAX_SEARCH_RESULTS_PER_SOURCE, the attempt returns None.  entry.get at
\* line 140 is outside every try block: a None entry raises AttributeError.
ConsiderEntry ==
    /\ pc = "consider"
    /\ IF PastLastCandidate(i, nEntries)
       THEN /\ pc' = "attempt_returned"
            /\ cur' = NoEntry
            /\ UNCHANGED <<status, result>>
       ELSE \E e \in EntryKinds :
            /\ e.isNone => e = [NoEntry EXCEPT !.isNone = TRUE]
            /\ cur' = IF e.isNone THEN NoEntry ELSE e
            /\ status' = IF e.isNone THEN [status EXCEPT ![i] = "malformed"]
                         ELSE status
            /\ pc' = IF e.isNone THEN "raised" ELSE "prefilter"
            /\ result' = IF e.isNone THEN Raised("AttributeError") ELSE result
    /\ UNCHANGED <<fsVars, hasCover, trackSource, coverPath, src, nEntries,
                   i, srcDone, searched, raw, won, wonSource, n, ioFailed,
                   cached, prev, prevCached, emptySearch>>
    /\ UNCHANGED probed
    /\ UNCHANGED auxVars

\* Lines 146-152: an entry without locator, or with a reported duration
\* below MIN_DURATION_PREFILTER_SECONDS, is skipped.
PassesEarlyChecksNoLocator(e) ==
    ~(e.duration # NoDuration /\ e.duration < MIN_DURATION_PREFILTER_SECONDS)
PassesEarlyChecksInclusive(e) ==
    /\ e.url
    /\ ~(e.duration # NoDuration
         /\ e.duration <= MIN_DURATION_PREFILTER_SECONDS)
PassesEarlyChecks(e) ==
    /\ e.url
    /\ ~(e.duration # NoDuration /\ e.duration < MIN_DURATION_PREFILTER_SECONDS)

Prefilter ==
    /\ pc = "prefilter"
    /\ IF PassesEarlyChecks(cur)
       THEN /\ pc' = "probe"
            /\ UNCHANGED <<i, cur, status>>
       ELSE /\ pc' = "consider"
            /\ status' = [status EXCEPT ![i] = "closed"]
            /\ i' = NextRank(i)
            /\ cur' = NoEntry
    /\ UNCHANGED <<fsVars, hasCover, trackSource, coverPath, src, nEntries,
                   srcDone, searched, raw, won, wonSource, n, ioFailed,
                   cached, result, prev, prevCached, emptySearch,
                   probed>>
    /\ UNCHANGED auxVars

\* Lines 166-170: abr, or tbr when the stream has no video track.
SelectedAbr(info) ==
    IF info.abr # NoBitrate THEN info.abr
    ELSE IF info.vcodecNone THEN info.tbr ELSE NoBitrate

\* Lines 174-178: a known bitrate below the minimum rejects the entry.
PassesBitrateKnownOnly(info) ==
    /\ SelectedAbr(info) # NoBitrate
    /\ SelectedAbr(info) >= MIN_AUDIO_BITRATE_KBPS
PassesBitrate(info) ==
    ~(/\ SelectedAbr(info) # NoBitrate
      /\ SelectedAbr(info) < MIN_AUDIO_BITRATE_KBPS)

\* Lines 155-164: the detailed metadata of the entry is fetched.
ProbeBitrate ==
    /\ pc = "probe"
    /\ n' = [n EXCEPT !.probe = @ + 1]
    /\ \E p \in ProbeResults : probed' = p
    /\ pc' = "probed"
    /\ UNCHANGED <<fsVars, hasCover, trackSource, coverPath, src, nEntries,
                   i, cur, status, srcDone, searched, raw, won, wonSource,
                   ioFailed, cached, result, prev, prevCached, emptySearch>>
    /\ UNCHANGED auxVars

\* Lines 166-184: an error of the fetch, or a known bitrate below the
\* minimum, skips the entry; otherwise the download is attempted.
CheckBitrate ==
    /\ pc = "probed"
    /\ IF ~probed.err /\ PassesBitrate(probed.info)
       THEN /\ pc' = "download"
            /\ UNCHANGED <<i, cur, status>>
       ELSE /\ pc' = "consider"
            /\ status' = [status EXCEPT ![i] = "closed"]
            /\ i' = NextRank(i)
            /\ cur' = NoEntry
    /\ probed' = NoProbe
    /\ UNCHANGED <<fsVars, hasCover, trackSource, coverPath, src, nEntries,
                   srcDone, searched, raw, won, wonSource, n, ioFailed,
                   cached, result, prev, prevCached, emptySearch>>
    /\ UNCHANGED auxVars

\* Lines 200-217, what the download of one entry does:
\*   ok             the file is at the path prepare_filename gives
\*   nofile         extract_info returned but no file is at that path
\*   DownloadError  yt-dlp raised DownloadError (line 214)
\*   Exception      anything else was raised (line 216)
DownloadOutcomes == {"ok", "nofile", "DownloadError", "Exception"}

\* Lines 208-210: the path is returned when it is set and the file exists.
RawPathReturnedUnchecked(out) == out \in {"ok", "nofile"}
RawPathReturned(out) == out = "ok"

\* Lines 186-217: the entry is downloaded into the per-source folder.  The
\* raw path is returned only when the file exists; an error, or a download
\* that leaves no file, moves to the next entry.
DownloadEntry ==
    /\ pc = "download"
    /\ n' = [n EXCEPT !.download = @ + 1]
    /\ \E out \in DownloadOutcomes :
       IF RawPathReturned(out)
       THEN /\ raw' = <<SourceName, i>>
            /\ tempFiles' = IF out = "ok" THEN tempFiles \cup {"raw"}
                            ELSE tempFiles
            /\ status' = [status EXCEPT ![i] = "downloaded"]
            /\ pc' = "attempt_returned"
            /\ i' = i
       ELSE /\ raw' = raw
            /\ tempFiles' = tempFiles
            /\ status' = [status EXCEPT ![i] = "closed"]
            /\ pc' = "consider"
            /\ i' = NextRank(i)
    /\ cur' = NoEntry
    /\ UNCHANGED <<finalFile, sidecar, tempDir, hasCover, trackSource,
                   coverPath, src, nEntries, srcDone, searched, won,
                   wonSource, ioFailed, cached, result, prev, prevCached,
                   emptySearch>>
    /\ UNCHANGED probed
    /\ UNCHANGED auxVars

\* Lines 353-354: the attempt returned None; the loop goes to the next source.
NoRawAudio ==
    /\ pc = "attempt_returned"
    /\ raw = <<>>
    /\ srcDone' = srcDone \cup {SourceName}
    /\ pc' = "next_source"
    /\ UNCHANGED <<fsVars, hasCover, trackSource, coverPath, src, nEntries,
                   i, cur, status, searched, raw, won, wonSource, n,
                   ioFailed, cached, result, prev, prevCached, emptySearch,
                   probed>>
    /\ UNCHANGED auxVars

\* Where the loop continues after the transcode or the validation of the
\* downloaded candidate failed (lines 345 and 350): the next source.
AfterProcessingFailedRetry == "consider"
AfterProcessingFailed == "next_source"

\* Where the control goes after a validated success (line 343: break).
AfterValidatedNoBreak == "next_source"
AfterValidated == "cleanup"

\* convert_to_mp3_320kbps (audio_processor.py lines 181-230), outcomes:
\*   unreadable  the input cannot be read (line 201), or the output
\*               directory cannot be created (line 210): False, output path
\*               untouched
\*   export      the export raises (line 222), or anything unexpected is
\*               raised (line 226); the output is untouched (it could not be
\*               opened) or holds a partial file; _remove_partial_file then
\*               removes it, or fails to and logs
\*   ok          True, the output holds the transcoded file
ConvertOutcomesNoCleanup(f, s) ==
    {[ok |-> FALSE, file |-> f, rmOk |-> ~("final" \in ioFailed)],
     [ok |-> FALSE, file |-> File(FALSE, s), rmOk |-> TRUE]}
    \cup {[ok |-> TRUE, file |-> File(v, s), rmOk |-> TRUE] : v \in BOOLEAN}
ConvertOutcomes(f, s) ==
    {[ok |-> FALSE, file |-> f, rmOk |-> ~("final" \in ioFailed)]}
    \cup {[ok |-> FALSE, file |-> r.file, rmOk |-> r.ok] :
            r \in RemoveOutcomes(f) \cup RemoveOutcomes(File(FALSE, s))}
    \cup {[ok |-> TRUE, file |-> File(v, s), rmOk |-> TRUE] : v \in BOOLEAN}

\* Lines 324-331 and 349-350: the raw audio is transcoded to the final path.
Transcode ==
    /\ pc = "attempt_returned"
    /\ raw # <<>>
    /\ n' = [n EXCEPT !.transcode = @ + 1]
    /\ \E c \in ConvertOutcomes(finalFile, SourceName) :
       /\ finalFile' = c.file
       /\ ioFailed' = IF c.rmOk THEN ioFailed \ {"final"}
                      ELSE ioFailed \cup {"final"}
       /\ pc' = IF c.ok THEN "validate" ELSE AfterProcessingFailed
       /\ srcDone' = IF c.ok THEN srcDone ELSE srcDone \cup {SourceName}
    /\ UNCHANGED <<sidecar, tempDir, tempFiles, hasCover, trackSource,
                   coverPath, src, nEntries, i, cur, status, searched, raw,
                   won, wonSource, cached, result, prev, prevCached,
                   emptySearch,
                   probed>>
    /\ UNCHANGED auxVars

\* Lines 337-342: json.dump of the track with download_source; a failure is
\* logged.  The old sidecar stays when open fails, a truncated file is left
\* when the dump fails.
SidecarWriteNoSource(s) ==
    {[ok |-> TRUE, content |-> "nosource"],
     [ok |-> FALSE, content |-> sidecar],
     [ok |-> FALSE, content |-> "corrupt"]}
SidecarWriteOutcomes(s) ==
    {[ok |-> TRUE, content |-> s],
     [ok |-> FALSE, content |-> sidecar],
     [ok |-> FALSE, content |-> "corrupt"]}

\* Lines 334-342: final_validated_mp3_path is set before the sidecar is
\* written and the exception of the write is only logged: the artifact
\* counts as acquired whether or not the write succeeded.
AcquiredOnlyIfWritten(ok) == ok
AcquiredAfterWrite(ok) == TRUE

\* Lines 332-348: the transcoded file is validated.  Success records the
\* source and writes the sidecar; failure removes the file (OSError logged).
Validate ==
    /\ pc = "validate"
    /\ n' = [n EXCEPT !.validate = @ + 1]
    /\ IF validate_mp3_320kbps(finalFile)
       THEN /\ wonSource' = SourceName
            /\ trackSource' = SourceName
            /\ \E w \in SidecarWriteOutcomes(SourceName) :
               /\ sidecar' = w.content
               /\ ioFailed' = IF w.ok THEN ioFailed
                              ELSE ioFailed \cup {"sidecar"}
               /\ won' = AcquiredAfterWrite(w.ok)
            /\ pc' = AfterValidated
            /\ UNCHANGED <<finalFile, srcDone>>
       ELSE /\ \E r \in RemoveOutcomes(finalFile) :
               /\ finalFile' = r.file
               /\ ioFailed' = IF r.ok THEN ioFailed \ {"final"}
                              ELSE ioFailed \cup {"final"}
            /\ srcDone' = srcDone \cup {SourceName}
            /\ pc' = AfterProcessingFailed
            /\ UNCHANGED <<won, wonSource, trackSource, sidecar>>
    /\ UNCHANGED <<tempDir, tempFiles, hasCover, coverPath, src, nEntries, i,
                   cur, status, searched, raw, cached, result, prev,
                   prevCached, emptySearch,
                   probed>>
    /\ UNCHANGED auxVars

\* Lines 356-362: the workspace is removed; an OSError is logged.
CleanupWorkspace ==
    /\ pc = "cleanup"
    /\ \E rm \in (IF tempDir THEN RmtreeOutcomes
                  ELSE {[ok |-> TRUE, dir |-> FALSE, files |-> {}]}) :
       /\ tempDir' = rm.dir
       /\ tempFiles' = rm.files
       /\ ioFailed' = IF rm.ok THEN ioFailed ELSE ioFailed \cup {"temp"}
    /\ pc' = "finish"
    /\ UNCHANGED <<finalFile, sidecar, hasCover, trackSource, coverPath,
                   loopVars, won, wonSource, n, cached, result, prev,
                   prevCached, emptySearch>>
    /\ UNCHANGED auxVars

\* Lines 364-372: without a validated file, whatever is at the final path is
\* removed (OSError swallowed); the pair is returned.
Finish ==
    /\ pc = "finish"
    /\ IF won
       THEN /\ result' = Returned("final", wonSource)
            /\ UNCHANGED <<finalFile, ioFailed>>
       ELSE /\ result' = Returned("none", "none")
            /\ \E r \in RemoveOutcomes(finalFile) :
               /\ finalFile' = r.file
               /\ ioFailed' = IF r.ok THEN ioFailed \ {"final"}
                              ELSE ioFailed \cup {"final"}
    /\ pc' = "returned"
    /\ UNCHANGED <<sidecar, tempDir, tempFiles, hasCover, trackSource,
                   coverPath, loopVars, won, wonSource, n, cached, prev,
                   prevCached, emptySearch>>
    /\ UNCHANGED auxVars

\* ----------------------------------------------------- validate_mp3_320kbps
\* audio_processor.py line 18.
DEFAULT_DURATION_TOLERANCE_MS == 5000

\* None where a number of milliseconds is expected.
NoMs == 0 - 1

\* format_name of the probe, as a sequence of characters.
Mp3 == <<"m", "p", "3">>
FormatNames == {Mp3, <<"M", "P", "3">>, <<"w", "a", "v">>, <<>>}

\* str.lower() on the characters that occur in FormatNames.
LowerChar(c) ==
    CASE c = "M" -> "m"
      [] c = "P" -> "p"
      [] c = "W" -> "w"
      [] c = "A" -> "a"
      [] c = "V" -> "v"
      [] OTHER -> c
Lower(str) == [k \in 1..Len(str) |-> LowerChar(str[k])]

\* The in operator on strings: sub occurs in str.
Contains(str, sub) ==
    \E k \in 0..(Len(str) - Len(sub)) :
        SubSeq(str, k + 1, k + Len(sub)) = sub

\* A value of the probe's dictionary: absent (missing, None or empty), a
\* string that is a decimal integer (v), or any other text.
Absent == [kind |-> "absent", v |-> 0]
Text == [kind |-> "text", v |-> 0]
Num(x) == [kind |-> "num", v |-> x]
BitRateFields ==
    {Absent, Text} \cup
    {Num(x) : x \in {314999, 315000, 325000, 325001, 256000}}
BitrateFields == {Absent, Num(320000)}

\* The duration the probe reports (line 162, duration_ms or duration):
\*   absent  no value
\*   str     a decimal number of seconds; v is that number in thousandths,
\*           below says that the floating-point product parsed * 1000 falls
\*           just below the integer v (as for "1.001")
\*   inf     a string float() parses to infinity ("inf", "1e400")
\*   nan     the string "nan"
\*   text    a string float() rejects
NoDurationField == [kind |-> "absent", v |-> 0, below |-> FALSE]
DurationFields ==
    {[kind |-> k, v |-> 0, below |-> FALSE] :
        k \in {"absent", "inf", "nan", "text"}}
    \cup {[kind |-> "str", v |-> x, below |-> FALSE] :
            x \in {194999, 195000, 200000, 205000, 205001, 1200000}}
    \cup {[kind |-> "str", v |-> 205001, below |-> TRUE]}

\* AudioSegment.from_file of the fallback (line 269) and the duration it
\* gives.
DecodeOk(ms) == [kind |-> "ok", ms |-> ms]
DecodeFails(e) == [kind |-> e, ms |-> NoMs]
DecodeOutcomes ==
    {DecodeOk(200000), DecodeOk(205001),
     DecodeFails("CouldntDecodeError"), DecodeFails("Exception")}

\* mediainfo(file_path): raises, returns something that is no dict, or
\* returns the dictionary.
ProbeAnswers == {"OSError", "Exception", "nondict", "dict"}

\* DEFAULT_AUDIO_FORMAT and DEFAULT_AUDIO_BITRATE (in kbps) as config.py
\* accepts them; the defaults are mp3 and 320k.
Configs ==
    {[format |-> Mp3, kbps |-> 320],
     [format |-> Mp3, kbps |-> 256],
     [format |-> <<"w", "a", "v">>, kbps |-> 320]}
DefaultConfig == [format |-> Mp3, kbps |-> 320]

ExpectedDurations == {NoMs, 200000, 1200000}
Tolerances == {DEFAULT_DURATION_TOLERANCE_MS, 0}

NoValidateInput ==
    [exists |-> FALSE, probe |-> "dict", format_name |-> <<>>,
     bit_rate |-> Absent, bitrate |-> Absent, duration |-> NoDurationField,
     decode |-> DecodeFails("Exception"), expected |-> NoMs,
     tolerance |-> DEFAULT_DURATION_TOLERANCE_MS, config |-> DefaultConfig]

\* The inputs of one call.  Fields the call cannot read are kept at their
\* default: nothing of a missing file, no dictionary of a failed probe, no
\* duration without expected_duration_ms, no decode unless the fallback runs.
ValidateInputs ==
    {r \in [exists : BOOLEAN, probe : ProbeAnswers,
            format_name : FormatNames, bit_rate : BitRateFields,
            bitrate : BitrateFields, duration : DurationFields,
            decode : DecodeOutcomes, expected : ExpectedDurations,
            tolerance : Tolerances, config : Configs] :
        /\ ~r.exists => r = [NoValidateInput EXCEPT !.config = r.config]
        /\ r.probe # "dict" =>
             r = [NoValidateInput EXCEPT !.exists = TRUE,
                                         !.probe = r.probe,
                                         !.config = r.config]
        /\ r.expected = NoMs =>
             /\ r.duration = NoDurationField
             /\ r.tolerance = DEFAULT_DURATION_TOLERANCE_MS
        /\ r.expected # NoMs => r.config = DefaultConfig
        /\ (r.expected = NoMs
            \/ r.duration.kind \notin {"absent", "nan", "text"}) =>
             r.decode = DecodeFails("Exception")}

\* _get_mediainfo_safe (lines 105-117): the dictionary, or None for every
\* exception and for a result that is no dict.  "raise" is an exception
\* leaving the function.
get_mediainfo_unguarded(p) ==
    IF p = "dict" THEN "info"
    ELSE IF p \in {"nondict", "OSError"} THEN "None" ELSE "raise"
get_mediainfo_safe(p) == IF p = "dict" THEN "info" ELSE "None"

\* _is_format_mp3 (lines 120-123): "mp3" in str(format_name).lower(); the
\* configured format is not read.
is_format_mp3(info) == Contains(Lower(info.format_name), Mp3)

\* Line 138: bit_rate or bitrate or "0".
SelectedBitRate(info) ==
    IF info.bit_rate.kind # "absent" THEN info.bit_rate
    ELSE IF info.bitrate.kind # "absent" THEN info.bitrate
    ELSE Num(0)

\* _is_approx_320kbps (lines 138-145): int() of the selected value, False
\* when it does not parse, else the fixed range 315000..325000; the
\* configured bitrate is not read.
is_approx_320kbps(info) ==
    /\ SelectedBitRate(info).kind = "num"
    /\ 315000 <= SelectedBitRate(info).v
    /\ SelectedBitRate(info).v <= 325000

\* _get_duration_ms_from_info (lines 160-178) for the strings mediainfo
\* returns: above 1000 the parsed number is taken as milliseconds, else as
\* seconds; TypeError and ValueError give None, the OverflowError of
\* int(inf) leaves the function.
get_duration_ms_from_info(d) ==
    CASE d.kind \in {"absent", "text", "nan"} ->
            [raises |-> FALSE, ms |-> NoMs]
      [] d.kind = "inf" -> [raises |-> TRUE, ms |-> NoMs]
      [] OTHER ->
            [raises |-> FALSE,
             ms |-> IF d.v > 1000 * 1000 THEN d.v \div 1000
                    ELSE IF d.below THEN d.v - 1 ELSE d.v]

\* Lines 278-281: lower_bound <= actual_duration_ms <= upper_bound.
WithinToleranceExclusive(actual, expected, tolerance) ==
    /\ expected - tolerance < actual
    /\ actual < expected + tolerance
WithinTolerance(actual, expected, tolerance) ==
    /\ expected - tolerance <= actual
    /\ actual <= expected + tolerance

\* Lines 247-249: a missing file fails validation.
VCheckExists ==
    /\ vpc = "start"
    /\ vpc' = IF vin.exists THEN "mediainfo" ELSE "done"
    /\ vres' = IF vin.exists THEN vres ELSE "False"
    /\ UNCHANGED <<vin, vactual>>
    /\ UNCHANGED <<downloadVars, mainVars, extVars>>

\* Lines 251-254: the probe, outside the try block of line 256.
VMediainfo ==
    /\ vpc = "mediainfo"
    /\ LET info == get_mediainfo_safe(vin.probe) IN
       /\ vpc' = IF info = "info" THEN "checks" ELSE "done"
       /\ vres' = CASE info = "info" -> vres
                    [] info = "None" -> "False"
                    [] OTHER -> "raised"
    /\ UNCHANGED <<vin, vactual>>
    /\ UNCHANGED <<downloadVars, mainVars, extVars>>

\* Lines 257-264 and 289-290: format and bitrate; without an expected
\* duration the file is valid.
VFormatAndBitrate ==
    /\ vpc = "checks"
    /\ IF ~(is_format_mp3(vin) /\ is_approx_320kbps(vin))
       THEN vpc' = "done" /\ vres' = "False"
       ELSE IF vin.expected = NoMs
            THEN vpc' = "done" /\ vres' = "True"
            ELSE vpc' = "duration" /\ vres' = vres
    /\ UNCHANGED <<vin, vactual>>
    /\ UNCHANGED <<downloadVars, mainVars, extVars>>

\* Lines 265-276 and 291-295: the duration from the probe, else from
\* decoding the file; a failed decode, and an exception of the parse caught
\* at line 291, fail validation.
VDuration ==
    /\ vpc = "duration"
    /\ LET d == get_duration_ms_from_info(vin.duration) IN
       IF d.raises
       THEN vpc' = "done" /\ vres' = "False" /\ vactual' = vactual
       ELSE IF d.ms # NoMs
            THEN vpc' = "compare" /\ vres' = vres /\ vactual' = d.ms
            ELSE IF vin.decode.kind = "ok"
                 THEN /\ vpc' = "compare"
                      /\ vres' = vres
                      /\ vactual' = vin.decode.ms
                 ELSE vpc' = "done" /\ vres' = "False" /\ vactual' = vactual
    /\ UNCHANGED vin
    /\ UNCHANGED <<downloadVars, mainVars, extVars>>

\* Lines 278-290: the duration must lie within the tolerance.
VCompare ==
    /\ vpc = "compare"
    /\ vpc' = "done"
    /\ vres' = IF WithinTolerance(vactual, vin.expected, vin.tolerance)
               THEN "True" ELSE "False"
    /\ UNCHANGED <<vin, vactual>>
    /\ UNCHANGED <<downloadVars, mainVars, extVars>>

ValidateNext ==
    \/ VCheckExists
    \/ VMediainfo
    \/ VFormatAndBitrate
    \/ VDuration
    \/ VCompare

\* No call of validate_mp3_320kbps is being followed.
ValidateOff ==
    /\ vpc = "off"
    /\ vin = NoValidateInput
    /\ vactual = NoMs
    /\ vres = "none"

\* No call of download_song is being followed.
DownloadOff ==
    /\ DownloadInit
    /\ finalFile = NoFile
    /\ sidecar = "none"
    /\ ~tempDir
    /\ ~hasCover

\* -------------------------------------------------------- sanitize_filename
\* The character class of line 47: < > : " / \ | ? *
InvalidChars == {"<", ">", ":", "\"", "/", "\\", "|", "?", "*"}

\* Characters \s and str.strip() take as whitespace (those of the model).
WhitespaceChars == {" ", "\t"}

\* The characters of the texts of the model: ordinary ones, whitespace, the
\* underscore and invalid ones.
Alphabet == {"a", "-", " ", "\t", "_", "/", "?"}

\* An argument of sanitize_filename: a str, as the sequence of its
\* characters, or an object that is no str.
TextOf(cs) == [isStr |-> TRUE, chars |-> cs]
NotText == [isStr |-> FALSE, chars |-> <<>>]
Texts ==
    {NotText} \cup
    {TextOf(cs) : cs \in UNION {[1..k -> Alphabet] : k \in 0..MaxTextLen}}

\* str.strip(chars): the characters of cs removed from both ends.
StripChars(str, cs) ==
    LET keep == {k \in 1..Len(str) : str[k] \notin cs} IN
    IF keep = {} THEN <<>>
    ELSE SubSeq(str, CHOOSE k \in keep : \A m \in keep : k <= m,
                     CHOOSE k \in keep : \A m \in keep : k >= m)

\* Line 47: every invalid character becomes an underscore.
ReplaceInvalid(str) ==
    [k \in 1..Len(str) |-> IF str[k] \in InvalidChars THEN "_" ELSE str[k]]

\* The longest prefix of str made of characters of cs, removed.
RECURSIVE DropRun(_, _)
DropRun(str, cs) ==
    IF str # <<>> /\ Head(str) \in cs THEN DropRun(Tail(str), cs) ELSE str

\* Line 50: re.sub(r'[\s_]+', '_', s), every maximal run of whitespace and
\* underscores becomes one underscore.
RECURSIVE CollapseRuns(_)
CollapseRuns(str) ==
    IF str = <<>> THEN <<>>
    ELSE IF Head(str) \in WhitespaceChars \cup {"_"}
         THEN <<"_">> \o CollapseRuns(
                            DropRun(Tail(str), WhitespaceChars \cup {"_"}))
         ELSE <<Head(str)>> \o CollapseRuns(Tail(str))

\* Lines 47-53: the substitutions and the strip of underscores.
RewriteNoStrip(str) == CollapseRuns(ReplaceInvalid(str))
Rewrite(str) == StripChars(CollapseRuns(ReplaceInvalid(str)), {"_"})

\* sanitize_filename (lines 38-59) as a function: the exception raised
\* ("none" when it returns) and the value returned.
sanitize_filename(t) ==
    IF ~t.isStr THEN [raises |-> "TypeError", value |-> <<>>]
    ELSE IF StripChars(t.chars, WhitespaceChars) = <<>>
         THEN [raises |-> "ValueError", value |-> <<>>]
    ELSE IF Rewrite(StripChars(t.chars, WhitespaceChars)) = <<>>
         THEN [raises |-> "ValueError", value |-> <<>>]
    ELSE [raises |-> "none",
          value |-> Rewrite(StripChars(t.chars, WhitespaceChars))]

\* os.path.basename: what follows the last separator.
Basename(str) ==
    LET seps == {k \in 1..Len(str) : str[k] = "/"} IN
    IF seps = {} THEN str
    ELSE SubSeq(str, (CHOOSE k \in seps : \A m \in seps : k >= m) + 1,
                Len(str))

\* The callers of sanitize_filename: the final file name (line 229), the
\* workspace key (249), the per-source folder (313), the raw download name
\* (96) and sanitize_basename (utils.py line 80).  The second, third and
\* fifth hand over a basename.
Callers == {"final_name", "workspace_key", "source_folder", "raw_name",
            "sanitize_basename"}

\* No caller has gone on yet.
NoCall == [caller |-> "none", name |-> <<>>, aborted |-> FALSE]

\* except (TypeError, ValueError) of every caller.
CaughtTypeErrorOnly(e) == e = "TypeError"
CaughtBySanitizeCaller(e) == e \in {"TypeError", "ValueError"}

\* Lines 38-44: the type check, the strip of whitespace, the blank check.
SanitizeValidate ==
    /\ spc = "start"
    /\ IF ~text.isStr
       THEN spc' = "done" /\ sres' = "TypeError" /\ swork' = swork
       ELSE IF StripChars(text.chars, WhitespaceChars) = <<>>
            THEN spc' = "done" /\ sres' = "ValueError" /\ swork' = swork
            ELSE /\ spc' = "rewrite"
                 /\ sres' = sres
                 /\ swork' = StripChars(text.chars, WhitespaceChars)
    /\ UNCHANGED <<text, call>>
    /\ UNCHANGED <<downloadVars, valVars, mainVars, namingVars,
                   playlistVars>>

\* Lines 47-53: the two substitutions and the strip of underscores.
SanitizeRewrite ==
    /\ spc = "rewrite"
    /\ swork' = Rewrite(swork)
    /\ spc' = "check"
    /\ UNCHANGED <<text, sres, call>>
    /\ UNCHANGED <<downloadVars, valVars, mainVars, namingVars,
                   playlistVars>>

\* Lines 56-59: an empty result raises ValueError, else it is returned.
SanitizeReturn ==
    /\ spc = "check"
    /\ spc' = "done"
    /\ sres' = IF swork = <<>> THEN "ValueError" ELSE "returned"
    /\ UNCHANGED <<text, swork, call>>
    /\ UNCHANGED <<downloadVars, valVars, mainVars, namingVars,
                   playlistVars>>

\* spotify_downloader.py lines 228-233, 248-252, 312-316, 95-100 and
\* utils.py lines 78-83: the caller goes on with the sanitized name, or,
\* when sanitize_filename raised what its except clause names, with the
\* basename of the text it handed over.
CallerContinues ==
    /\ spc = "done"
    /\ text.isStr
    /\ \E c \in Callers :
       /\ c \in {"workspace_key", "source_folder", "sanitize_basename"} =>
             Basename(text.chars) = text.chars
       /\ call' = IF sres = "returned"
                  THEN [caller |-> c, name |-> swork, aborted |-> FALSE]
                  ELSE IF CaughtBySanitizeCaller(sres)
                       THEN [caller |-> c, name |-> Basename(text.chars),
                             aborted |-> FALSE]
                       ELSE [caller |-> c, name |-> <<>>, aborted |-> TRUE]
    /\ spc' = "called"
    /\ UNCHANGED <<text, swork, sres>>
    /\ UNCHANGED <<downloadVars, valVars, mainVars, namingVars,
                   playlistVars>>

SanitizeNext ==
    \/ SanitizeValidate
    \/ SanitizeRewrite
    \/ SanitizeReturn
    \/ CallerContinues

\* No call of sanitize_filename is being followed.
SanitizeOff ==
    /\ spc = "off"
    /\ text = NotText
    /\ swork = <<>>
    /\ sres = "none"
    /\ call = NoCall

\* --------------------------------------------- the paths of download_song
\* spotify_track_id is None or missing.
NoId == <<"N", "o", "n", "e">>

\* Track descriptors as get_playlist_tracks builds them: artist, name and
\* spotify_track_id, each a text, and duration_ms.
TrackDescriptors ==
    [artist : {<<"a">>, <<"b">>},
     name : {<<"x">>, <<"x", "?">>, <<"x", "_">>},
     id : {NoId, <<"1">>, <<"2">>},
     duration_ms : {200000, 204000, 260000}]

\* try: sanitize_filename(s) except (TypeError, ValueError): basename of s.
SanitizedOrBasename(str) ==
    IF sanitize_filename(TextOf(str)).raises = "none"
    THEN sanitize_filename(TextOf(str)).value
    ELSE Basename(str)

\* Lines 226-236: sanitized_track_name of "<artist> - <name>", the stem of
\* final_mp3_path and metadata_json_path in download_dir.
DeriveFinalPath ==
    /\ Len(finalPaths) = Len(workspaces)
    /\ Len(finalPaths) = Len(attempted)
    /\ Len(finalPaths) < Len(tracks)
    /\ LET t == tracks[Len(finalPaths) + 1] IN
       finalPaths' =
          Append(finalPaths,
                 SanitizedOrBasename(t.artist \o <<" ", "-", " ">> \o t.name))
    /\ UNCHANGED <<tracks, workspaces, disk>>
    /\ UNCHANGED <<downloadVars, valVars, mainVars, sanVars, playlistVars>>

\* Lines 239-254: the workspace _temp_dl_<key>, keyed by the sanitized
\* basename of spotify_track_id, or by sanitized_track_name without an id.
DeriveWorkspace ==
    /\ Len(workspaces) < Len(finalPaths)
    /\ LET k == Len(finalPaths)
           id_candidate == IF tracks[k].id = NoId THEN finalPaths[k]
                           ELSE Basename(tracks[k].id)
       IN workspaces' =
             Append(workspaces,
                    <<"_", "t", "e", "m", "p", "_", "d", "l", "_">>
                       \o SanitizedOrBasename(id_candidate))
    /\ UNCHANGED <<tracks, finalPaths, disk>>
    /\ UNCHANGED <<downloadVars, valVars, mainVars, sanVars, playlistVars>>

\* An audio file by what validate_mp3_320kbps reads of it: its duration in
\* ms, 0 for a file that is no MP3 at 320 kbps (a partial or failed
\* transcode).
NoAudio == [exists |-> FALSE, ms |-> 0]
FileAt(p) == IF p \in DOMAIN disk THEN disk[p] ELSE NoAudio

\* validate_mp3_320kbps(path, expected_duration_ms = track's duration_ms).
ValidFor(f, t) ==
    /\ f.exists
    /\ f.ms # 0
    /\ WithinTolerance(f.ms, t.duration_ms, DEFAULT_DURATION_TOLERANCE_MS)

\* download_song from line 264 on, for track t and the file old at its
\* final path: what process_tracks gets and the file left at the path.
\*   a valid file: its path is returned and the file kept (lines 264-280),
\*     or the sidecar read or the rmtree raises;
\*   otherwise a candidate validates for t and is now the file (lines
\*     326-343); or every source is exhausted and no file is left, unless
\*     os.remove failed on the old file or on a failed transcode (lines
\*     344-348, 364-372); or an exception leaves the call with the old file
\*     or a failed transcode at the path.
AcquireOutcomes(old, t) ==
    IF ValidFor(old, t)
    THEN {[result |-> r, file |-> old] : r \in {"path", "Exception"}}
    ELSE {[result |-> "path",
           file |-> [exists |-> TRUE, ms |-> t.duration_ms]]}
         \cup {[result |-> r, file |-> f] :
                 r \in {"nopath", "Exception"},
                 f \in {old, [exists |-> TRUE, ms |-> 0]}}
         \cup {[result |-> "nopath", file |-> NoAudio]}

\* main.py lines 159-185 with download_song from line 264 on: the track
\* whose paths were derived is acquired and appended to downloaded_songs or
\* failed_songs.
AcquireTrack ==
    /\ Len(workspaces) = Len(finalPaths)
    /\ Len(attempted) < Len(finalPaths)
    /\ LET k == Len(finalPaths)
           p == finalPaths[k]
       IN \E out \in AcquireOutcomes(FileAt(p), tracks[k]) :
             /\ disk' = [q \in DOMAIN disk \cup {p} |->
                            IF q = p THEN out.file ELSE disk[q]]
             /\ attempted' = Append(attempted, k)
             /\ outcomes' = Append(outcomes, out.result)
             /\ downloaded_songs' = IF out.result = "path"
                                    THEN Append(downloaded_songs, k)
                                    ELSE downloaded_songs
             /\ failed_songs' = IF out.result = "path" THEN failed_songs
                                ELSE Append(failed_songs, k)
    /\ UNCHANGED <<tracks, finalPaths, workspaces>>
    /\ UNCHANGED <<mpc, credentials, constructions, fetches, nTracks,
                   reports, mainResult>>
    /\ UNCHANGED <<downloadVars, valVars, sanVars, playlistVars>>

NamingNext ==
    \/ DeriveFinalPath
    \/ DeriveWorkspace
    \/ AcquireTrack

\* No playlist is being followed.
NamingOff ==
    /\ tracks = <<>>
    /\ finalPaths = <<>>
    /\ workspaces = <<>>
    /\ disk = <<>>

\* ------------------------------------------------------ get_playlist_tracks
\* A playlist item as line 54 reads it: whether item['track'] is set, and
\* whether its name, its artists list and its duration_ms are set and
\* neither empty nor zero.  Nothing is read of an item without track.
PlaylistItems ==
    {it \in [track : BOOLEAN, name : BOOLEAN, artists : BOOLEAN,
             duration : BOOLEAN] :
        ~it.track => (~it.name /\ ~it.artists /\ ~it.duration)}

\* Line 54: track and name and artists and duration_ms.
ForwardedWithoutDuration(it) == it.track /\ it.name /\ it.artists
Forwarded(it) == it.track /\ it.name /\ it.artists /\ it.duration

\* Lines 45-47: the first page; an exception of the request is caught at
\* line 76 and the empty list returned.
FetchFirstPage ==
    /\ gpc = "first_page"
    /\ \/ /\ fetchFailed' = TRUE
          /\ gpc' = "done"
          /\ fetched' = fetched
       \/ /\ \E cnt \in 0..Len(playlist) :
                /\ cnt = 0 <=> playlist = <<>>
                /\ fetched' = cnt
          /\ gpc' = "paging"
          /\ fetchFailed' = fetchFailed
    /\ UNCHANGED <<playlist, scanned, track_list>>
    /\ UNCHANGED <<downloadVars, valVars, mainVars, sanVars, namingVars>>

\* Lines 48-50: while the page names a next one it is fetched and its
\* items are appended; an exception is caught at line 76.
FetchNextPage ==
    /\ gpc = "paging"
    /\ fetched < Len(playlist)
    /\ \/ /\ fetchFailed' = TRUE
          /\ gpc' = "done"
          /\ fetched' = fetched
       \/ /\ \E cnt \in 1..(Len(playlist) - fetched) : fetched' = fetched + cnt
          /\ gpc' = gpc
          /\ fetchFailed' = fetchFailed
    /\ UNCHANGED <<playlist, scanned, track_list>>
    /\ UNCHANGED <<downloadVars, valVars, mainVars, sanVars, namingVars>>

\* Lines 52-74: one iteration of the loop over items.
FilterItem ==
    /\ gpc = "paging"
    /\ fetched = Len(playlist)
    /\ scanned < fetched
    /\ scanned' = scanned + 1
    /\ track_list' = IF Forwarded(playlist[scanned + 1])
                     THEN Append(track_list, scanned + 1)
                     ELSE track_list
    /\ UNCHANGED <<gpc, playlist, fetched, fetchFailed>>
    /\ UNCHANGED <<downloadVars, valVars, mainVars, sanVars, namingVars>>

\* Lines 75 and 78: the list is returned.
ReturnTrackList ==
    /\ gpc = "paging"
    /\ fetched = Len(playlist)
    /\ scanned = fetched
    /\ gpc' = "done"
    /\ UNCHANGED <<playlist, fetched, scanned, track_list, fetchFailed>>
    /\ UNCHANGED <<downloadVars, valVars, mainVars, sanVars, namingVars>>

PlaylistNext ==
    \/ FetchFirstPage
    \/ FetchNextPage
    \/ FilterItem
    \/ ReturnTrackList

\* No call of get_playlist_tracks is being followed.
PlaylistLocals ==
    /\ fetched = 0
    /\ scanned = 0
    /\ track_list = <<>>
    /\ fetchFailed = FALSE

PlaylistOff ==
    /\ gpc = "off"
    /\ playlist = <<>>
    /\ PlaylistLocals

\* The specifications added to the three main ones are idle.
ExtOff == SanitizeOff /\ NamingOff /\ PlaylistOff

\* ------------------------------------------------- main and process_tracks
\* What one call of download_song does, as process_tracks sees it: a pair
\* with a path, a pair with no path (None, None), or an exception (OSError,
\* RuntimeError, or any other Exception such as AttributeError).
SongOutcomes == {"path", "nopath", "OSError", "RuntimeError", "Exception"}
SongExceptions == {"OSError", "RuntimeError", "Exception"}

\* main.py line 216: not SPOTIPY_CLIENT_ID or not SPOTIPY_CLIENT_SECRET.
CredentialsMissingBoth(c) == ~c.id /\ ~c.secret
CredentialsMissing(c) == ~c.id \/ ~c.secret

\* Lines 165-171: except (OSError, RuntimeError) and except Exception; each
\* appends the track to failed_songs.
CaughtSystemErrorsOnly(e) == e \in {"OSError", "RuntimeError"}
CaughtPerTrack(e) == e \in {"OSError", "RuntimeError", "Exception"}

\* Lines 209-219: arguments and console, then the credentials check.
CheckCredentials ==
    /\ mpc = "start"
    /\ IF CredentialsMissing(credentials)
       THEN /\ reports' = Append(reports, "credentials")
            /\ mpc' = "done"
            /\ mainResult' = "returned"
       ELSE /\ reports' = reports
            /\ mpc' = "init"
            /\ mainResult' = mainResult
    /\ UNCHANGED <<credentials, constructions, fetches, nTracks, outcomes,
                   attempted, downloaded_songs, failed_songs>>
    /\ UNCHANGED <<downloadVars, valVars, extVars>>

\* Lines 222-226 and 114-125, spotify_downloader.py lines 26-40: the
\* constructor raises ValueError without credentials and re-raises whatever
\* the Spotify client raised; main handles ValueError, ImportError and
\* RuntimeError, anything else leaves main.
InitializeDownloader ==
    /\ mpc = "init"
    /\ constructions' = constructions + 1
    /\ \E out \in {"ok", "ValueError", "ImportError", "RuntimeError",
                   "Exception"} :
       /\ (~credentials.id \/ ~credentials.secret) => out = "ValueError"
       /\ reports' = IF out \in {"ValueError", "ImportError", "RuntimeError"}
                     THEN Append(reports, "init") ELSE reports
       /\ mpc' = IF out = "ok" THEN "fetch" ELSE "done"
       /\ mainResult' = CASE out = "ok" -> mainResult
                          [] out = "Exception" -> "raised"
                          [] OTHER -> "returned"
    /\ UNCHANGED <<credentials, fetches, nTracks, outcomes, attempted,
                   downloaded_songs, failed_songs>>
    /\ UNCHANGED <<downloadVars, valVars, extVars>>

\* Lines 229-244: the playlist is fetched; an exception, and an empty list,
\* are reported and end the run.
FetchTracks ==
    /\ mpc = "fetch"
    /\ fetches' = fetches + 1
    /\ \E raised \in BOOLEAN, cnt \in 0..MaxTracks :
       /\ raised => cnt = 0
       /\ nTracks' = cnt
       /\ reports' = IF raised THEN Append(reports, "fetch")
                     ELSE IF cnt = 0 THEN Append(reports, "no tracks")
                     ELSE reports
       /\ mpc' = IF cnt = 0 THEN "done" ELSE "ensure_dir"
       /\ mainResult' = IF cnt = 0 THEN "returned" ELSE mainResult
    /\ UNCHANGED <<credentials, constructions, outcomes, attempted,
                   downloaded_songs, failed_songs>>
    /\ UNCHANGED <<downloadVars, valVars, extVars>>

\* Lines 246-252: the download directory; an OSError ends the run.
EnsureDownloadDir ==
    /\ mpc = "ensure_dir"
    /\ \E ok \in BOOLEAN :
       /\ reports' = IF ok THEN reports ELSE Append(reports, "directory")
       /\ mpc' = IF ok THEN "tracks" ELSE "done"
       /\ mainResult' = IF ok THEN mainResult ELSE "returned"
    /\ UNCHANGED <<credentials, constructions, fetches, nTracks, outcomes,
                   attempted, downloaded_songs, failed_songs>>
    /\ UNCHANGED <<downloadVars, valVars, extVars>>

\* Lines 159-185: one iteration of the loop of process_tracks: the next
\* track is handed to download_song; a path appends the track to
\* downloaded_songs; no path, and an exception the except clauses catch,
\* append it to failed_songs; any other exception leaves process_tracks
\* and main.
ProcessTrack ==
    /\ mpc = "tracks"
    /\ Len(attempted) < nTracks
    /\ LET k == Len(attempted) + 1 IN
       \E out \in SongOutcomes :
          /\ attempted' = Append(attempted, k)
          /\ outcomes' = Append(outcomes, out)
          /\ downloaded_songs' = IF out = "path"
                                 THEN Append(downloaded_songs, k)
                                 ELSE downloaded_songs
          /\ failed_songs' =
                IF out = "nopath"
                   \/ (out \in SongExceptions /\ CaughtPerTrack(out))
                THEN Append(failed_songs, k)
                ELSE failed_songs
          /\ IF out \in SongExceptions /\ ~CaughtPerTrack(out)
             THEN mpc' = "done" /\ mainResult' = "raised"
             ELSE mpc' = mpc /\ mainResult' = mainResult
    /\ UNCHANGED <<credentials, constructions, fetches, nTracks, reports>>
    /\ UNCHANGED <<downloadVars, valVars, extVars>>

\* Lines 187-190 and 255: the loop is over, process_tracks returns the lists.
ReturnTracks ==
    /\ mpc = "tracks"
    /\ Len(attempted) >= nTracks
    /\ mpc' = "summary"
    /\ UNCHANGED <<credentials, constructions, fetches, nTracks, outcomes,
                   attempted, downloaded_songs, failed_songs, reports,
                   mainResult>>
    /\ UNCHANGED <<downloadVars, valVars, extVars>>

\* Line 258: the summary is displayed and main returns.
DisplaySummary ==
    /\ mpc = "summary"
    /\ mpc' = "done"
    /\ mainResult' = "returned"
    /\ UNCHANGED <<credentials, constructions, fetches, nTracks, outcomes,
                   attempted, downloaded_songs, failed_songs, reports>>
    /\ UNCHANGED <<downloadVars, valVars, extVars>>

MainNext ==
    \/ CheckCredentials
    \/ InitializeDownloader
    \/ FetchTracks
    \/ EnsureDownloadDir
    \/ ProcessTrack
    \/ ReturnTracks
    \/ DisplaySummary

\* main() has not been entered.
MainLocals ==
    /\ constructions = 0
    /\ fetches = 0
    /\ nTracks = 0
    /\ outcomes = <<>>
    /\ attempted = <<>>
    /\ downloaded_songs = <<>>
    /\ failed_songs = <<>>
    /\ reports = <<>>
    /\ mainResult = "none"

MainOff ==
    /\ mpc = "off"
    /\ credentials = [id |-> TRUE, secret |-> TRUE]
    /\ MainLocals

MainInit ==
    /\ DownloadOff
    /\ ValidateOff
    /\ ExtOff
    /\ mpc = "start"
    /\ credentials \in [id : BOOLEAN, secret : BOOLEAN]
    /\ MainLocals

ValidateInit ==
    /\ DownloadOff
    /\ MainOff
    /\ ExtOff
    /\ vpc = "start"
    /\ vin \in ValidateInputs
    /\ vactual = NoMs
    /\ vres = "none"

SanitizeInit ==
    /\ DownloadOff
    /\ ValidateOff
    /\ MainOff
    /\ NamingOff
    /\ PlaylistOff
    /\ spc = "start"
    /\ text \in Texts
    /\ swork = <<>>
    /\ sres = "none"
    /\ call = NoCall

\* A playlist of two distinct tracks: different ids, or no id on either and
\* a different artist or name.
NamingInit ==
    /\ DownloadOff
    /\ ValidateOff
    /\ MainOff
    /\ SanitizeOff
    /\ PlaylistOff
    /\ tracks \in [1..2 -> TrackDescriptors]
    /\ tracks[1] # tracks[2]
    /\ tracks[1].id = tracks[2].id => tracks[1].id = NoId
    /\ finalPaths = <<>>
    /\ workspaces = <<>>
    /\ disk = <<>>

\* A playlist of up to MaxTracks items of every kind.
PlaylistInit ==
    /\ DownloadOff
    /\ ValidateOff
    /\ MainOff
    /\ SanitizeOff
    /\ NamingOff
    /\ gpc = "first_page"
    /\ playlist \in UNION {[1..k -> PlaylistItems] : k \in 0..MaxTracks}
    /\ PlaylistLocals

Init == DownloadInit /\ ValidateOff /\ MainOff /\ ExtOff

\* A valid or invalid artifact, or none, next to any sidecar.
CachedInit ==
    /\ finalFile \in {NoFile, File(TRUE, "old"), File(FALSE, "old")}
    /\ sidecar \in ForeignSidecarKinds
    /\ tempDir \in BOOLEAN
    /\ hasCover \in BOOLEAN
    /\ NoCallYet
    /\ ValidateOff /\ MainOff /\ ExtOff

\* Lines 224-282: download_song up to the return of the existing-file
\* branch; a call that falls through to the acquisition is not followed.
CachedNext ==
    \/ Call
    \/ PrepareWorkspace
    \/ CheckExisting
    \/ ReturnExisting

Next ==
    \/ Call
    \/ PrepareWorkspace
    \/ CheckExisting
    \/ ReturnExisting
    \/ FetchCoverArt
    \/ BeginSource
    \/ Search
    \/ ConsiderEntry
    \/ Prefilter
    \/ ProbeBitrate
    \/ CheckBitrate
    \/ DownloadEntry
    \/ NoRawAudio
    \/ Transcode
    \/ Validate
    \/ CleanupWorkspace
    \/ Finish

Spec == Init /\ [][Next]_vars

\* One call of validate_mp3_320kbps on every input of ValidateInputs.
ValidateSpec == ValidateInit /\ [][ValidateNext]_vars

\* One run of main() for every combination of credentials.
MainSpec == MainInit /\ [][MainNext]_vars

\* One call of sanitize_filename on every text of Texts, and its caller.
SanitizeSpec == SanitizeInit /\ [][SanitizeNext]_vars

\* The paths of the two tracks of a playlist, derived one track after the
\* other.
NamingSpec == NamingInit /\ [][NamingNext]_vars

\* One call of get_playlist_tracks on every playlist of PlaylistInit.
PlaylistSpec == PlaylistInit /\ [][PlaylistNext]_vars

\* Calls of download_song that find a file at the final path.
CachedSpec == CachedInit /\ [][CachedNext]_vars

\* ------------------------------------------------------------ properties
Concluded == pc \in {"returned", "raised"}

\* No network call was issued by the current call.
NoNetwork ==
    searched = <<>> /\ n.probe = 0 /\ n.download = 0 /\ n.cover = 0

\* The source a readable sidecar records, else the default.
RecordedSource == IF sidecar \in SourceNames THEN sidecar ELSE UnknownExisting

\* C1: within one call SoundCloud is searched first and YouTube second,
\* YouTube only after SoundCloud's loop iteration has ended; inside a source
\* a rank is reached, probed or downloaded only when every earlier rank has
\* been rejected or has failed.
C1_SourceAndRankOrder ==
    /\ Len(searched) <= 2
    /\ Len(searched) >= 1 => searched[1] = "SoundCloud"
    /\ Len(searched) = 2 => searched[2] = "YouTube" /\ "SoundCloud" \in srcDone
    /\ \A r \in 2..MaxEntries : status[r] # "none" => status[r - 1] = "closed"
    /\ pc \in {"prefilter", "probe", "probed", "download"} =>
          \A r \in 1..(i - 1) : status[r] = "closed"

\* The third candidate of the second source is about to be downloaded.
C1_Witness == pc = "download" /\ src = 2 /\ i = 3

\* C2: once a candidate has validated, the call issues no further search,
\* probe, download, cover fetch, transcode or validation.
C2_FirstSuccessWins ==
    [][(won /\ won') => (n' = n /\ searched' = searched)]_vars

\* The first source won and the call returned without searching the second.
C2_Witness ==
    /\ pc = "returned"
    /\ won
    /\ wonSource = "SoundCloud"
    /\ searched = <<"SoundCloud">>

\* A downloaded candidate failed transcoding or validation while the source
\* had a further candidate within the first three ranks.
C3_FailedWithMoreCandidates ==
    /\ raw # <<>>
    /\ SourceName \in srcDone
    /\ raw[2] < nEntries
    /\ raw[2] < MAX_SEARCH_RESULTS_PER_SOURCE

C4_Original ==
    (cached /\ Concluded /\ "temp" \notin ioFailed) =>
        /\ result = Returned("final", RecordedSource)
        /\ NoNetwork
        /\ n.transcode = 0

\* C5 as stated: with a valid existing artifact and a sidecar that is
\* missing, unreadable, corrupt or not a JSON object carrying
\* download_source, the call returns (final path, "Unknown/Existing") and
\* the sidecar never makes it raise.
C5_Original ==
    (cached /\ Concluded /\ sidecar \notin SourceNames) =>
        \/ result = Returned("final", UnknownExisting)
        \/ result = Raised("OSError")

\* C6 as stated: a call on an already valid artifact returns its pair with
\* no network call, and the next call on the unchanged directory returns the
\* same pair, again with no network call.
C6_Original ==
    (cached /\ Concluded /\ "temp" \notin ioFailed) =>
        /\ result.kind = "returned"
        /\ NoNetwork
        /\ prevCached => result = prev

C9_Original ==
    pc = "raised" => src = 0

\* YouTube validated after SoundCloud's search failed or was empty.
C10_Case ==
    /\ pc = "returned"
    /\ "SoundCloud" \in emptySearch
    /\ wonSource = "YouTube"

\* C10 as stated: then the call returns YouTube, the sidecar records
\* YouTube, and SoundCloud was searched exactly once.
C10_Original ==
    C10_Case =>
        /\ result = Returned("final", "YouTube")
        /\ sidecar = "YouTube"
        /\ searched = <<"SoundCloud", "YouTube">>

\* C10 amended: then the call returns YouTube, SoundCloud was searched
\* exactly once, and the sidecar records YouTube unless writing it failed.
C10_FallbackSource ==
    C10_Case =>
        /\ result = Returned("final", "YouTube")
        /\ searched = <<"SoundCloud", "YouTube">>
        /\ sidecar = "YouTube" \/ "sidecar" \in ioFailed

C10_Witness == C10_Case /\ sidecar = "YouTube" /\ trackSource = "YouTube"

\* The candidate under consideration reports a duration below the minimum.
C11_ShortDuration ==
    cur.duration # NoDuration /\ cur.duration < MIN_DURATION_PREFILTER_SECONDS

\* C11: a candidate whose reported duration is present and below 45 seconds
\* leaves the prefilter rejected, with no probe and no download issued for
\* it, and is never at the probe or the download step; a candidate with a
\* locator whose duration is absent or at least 45 seconds (45 included)
\* leaves the prefilter towards the bitrate probe.
C11_DurationPrefilter ==
    [][/\ (pc = "prefilter" /\ C11_ShortDuration) =>
            /\ pc' = "consider"
            /\ status'[i] = "closed"
            /\ i' = i + 1
            /\ n' = n
            /\ raw' = raw
       /\ (pc = "prefilter" /\ cur.url /\ ~C11_ShortDuration) =>
            (pc' = "probe" /\ cur' = cur /\ i' = i)
       /\ pc' \in {"probe", "probed", "download"} =>
            ~C11_ShortDuration']_vars

\* A candidate reporting exactly 45 seconds is at the bitrate probe, after
\* the first candidate of the source was rejected without any probe.
C11_Witness ==
    /\ pc = "probe"
    /\ cur.duration = MIN_DURATION_PREFILTER_SECONDS
    /\ i = 2
    /\ n.probe = 0

\* The bitrate the probe reports: the audio bitrate, or the total bitrate
\* when the audio bitrate is absent and the stream has no video track.
C12_Reported ==
    IF probed.info.abr # NoBitrate THEN probed.info.abr
    ELSE IF probed.info.vcodecNone THEN probed.info.tbr
    ELSE NoBitrate

\* C12: only a candidate that passed the locator and duration checks is
\* probed; the download proceeds exactly when the probe succeeded and
\* reports at least 128 kbps or no bitrate at all; otherwise the candidate
\* is removed with no download issued and the loop goes to the next rank.
C12_BitratePrefilter ==
    [][/\ pc' = "probed" => (cur'.url /\ ~C11_ShortDuration')
       /\ pc = "probed" =>
            /\ (pc' = "download") <=>
                  /\ ~probed.err
                  /\ \/ C12_Reported = NoBitrate
                     \/ C12_Reported >= MIN_AUDIO_BITRATE_KBPS
            /\ pc' = "download" => (cur' = cur /\ i' = i /\ n' = n)
            /\ pc' # "download" =>
                  /\ pc' = "consider"
                  /\ status'[i] = "closed"
                  /\ i' = i + 1
                  /\ n' = n
                  /\ raw' = raw]_vars

\* The first candidate was probed and removed without a download, the
\* second was probed and is about to be downloaded.
C12_Witness ==
    /\ pc = "download"
    /\ i = 2
    /\ n.probe = 2
    /\ n.download = 0

\* C16 as stated: on a fresh success the call returns (final path, S) with
\* S the source whose candidate validated, and the sidecar records S.
C16_Original ==
    (pc = "returned" /\ won) =>
        /\ result = Returned("final", wonSource)
        /\ sidecar = wonSource

\* C16 amended: on a fresh success the call returns (final path, S), the
\* file at the final path is the validated transcode of the candidate
\* downloaded from S, the track descriptor carries download_source = S, and
\* the sidecar records S unless writing it failed.
C16_FreshSuccess ==
    (pc = "returned" /\ won) =>
        /\ result = Returned("final", wonSource)
        /\ wonSource \in SourceNames
        /\ raw # <<>> /\ raw[1] = wonSource
        /\ finalFile = File(TRUE, wonSource)
        /\ trackSource = wonSource
        /\ sidecar = wonSource \/ "sidecar" \in ioFailed

\* A fresh success from the second source, the sidecar replaced.
C16_Witness ==
    /\ pc = "returned"
    /\ won
    /\ result = Returned("final", "YouTube")
    /\ n.transcode = 2
    /\ sidecar = "YouTube"
    /\ "sidecar" \notin ioFailed

\* C17: when writing the sidecar failed after a candidate validated, the
\* validated file stays at the final path, no further source or candidate
\* is attempted (only the cleanup and the return follow), and the call
\* returns (final path, winning source).
C17_SidecarFailureKeepsSuccess ==
    "sidecar" \in ioFailed =>
        /\ won
        /\ finalFile = File(TRUE, wonSource)
        /\ pc \in {"cleanup", "finish", "returned"}
        /\ Len(searched) = src
        /\ n.transcode <= src
        /\ pc = "returned" => result = Returned("final", wonSource)

\* The first source validated, the sidecar write failed leaving a truncated
\* file, and the call returned the artifact without searching YouTube.
C17_Witness ==
    /\ pc = "returned"
    /\ "sidecar" \in ioFailed
    /\ sidecar = "corrupt"
    /\ result = Returned("final", "SoundCloud")
    /\ searched = <<"SoundCloud">>
    /\ finalFile = File(TRUE, "SoundCloud")

\* C18 as stated: with a cover-art URL and no valid artifact the cover is
\* fetched exactly once, before the first source is searched; a fetch
\* failure does not abort the call, and after a failure no cover image is
\* passed to the transcoder (cover_image_path is temp_cover_image_path).
C18_Original ==
    /\ n.cover <= 1
    /\ src >= 1 => (n.cover = 1 <=> hasCover)
    /\ (pc = "raised" /\ "cover" \in ioFailed) => src >= 1
    /\ (n.transcode >= 1 /\ "cover" \in ioFailed) => ~coverPath

\* target_bps of the configuration.
C13_TargetBps == vin.config.kbps * 1000

\* C13 as stated: with no expected duration, for an existing file that can
\* be probed, the result is true exactly when the probed format name
\* contains the configured format (case-insensitive) and the probed bitrate
\* lies within 5000 bps of the configured bitrate.
C13_Original ==
    (/\ vpc = "done"
     /\ vin.exists
     /\ vin.probe = "dict"
     /\ vin.expected = NoMs) =>
        (vres = "True" <=>
            /\ Contains(Lower(vin.format_name), vin.config.format)
            /\ SelectedBitRate(vin).kind = "num"
            /\ C13_TargetBps - 5000 <= SelectedBitRate(vin).v
            /\ SelectedBitRate(vin).v <= C13_TargetBps + 5000)

\* |actual_duration_ms - expected_duration_ms|.
C14_Deviation ==
    IF vactual >= vin.expected THEN vactual - vin.expected
    ELSE vin.expected - vactual

\* C14: when an expected duration is supplied, format and bitrate pass and
\* the actual duration was determined, the result is true exactly when the
\* deviation is at most the tolerance (5000 passes, 5001 fails, above and
\* below).
C14_DurationTolerance ==
    (vpc = "done" /\ vactual # NoMs) =>
        /\ vin.expected # NoMs
        /\ is_format_mp3(vin)
        /\ is_approx_320kbps(vin)
        /\ vres = "True" <=> C14_Deviation <= vin.tolerance

\* A file 5000 ms longer than expected passed with the default tolerance.
C14_Witness ==
    /\ vpc = "done"
    /\ vres = "True"
    /\ vin.tolerance = DEFAULT_DURATION_TOLERANCE_MS
    /\ vactual = vin.expected + DEFAULT_DURATION_TOLERANCE_MS

\* The duration fallback ran and decoding the file failed.
C15_FallbackFailed ==
    /\ vin.exists
    /\ vin.probe = "dict"
    /\ is_format_mp3(vin)
    /\ is_approx_320kbps(vin)
    /\ vin.expected # NoMs
    /\ vin.duration.kind \in {"absent", "nan", "text"}
    /\ vin.decode.kind # "ok"

\* C15: the call never raises and ends with True or False; a missing file,
\* a probe that raised or returned no dict, a bitrate that does not parse
\* and a failed decode in the duration fallback each end with False.
C15_TotalPredicate ==
    /\ vres # "raised"
    /\ vpc = "done" =>
        /\ vres \in {"True", "False"}
        /\ ~vin.exists => vres = "False"
        /\ vin.probe # "dict" => vres = "False"
        /\ (vin.exists /\ SelectedBitRate(vin).kind = "text") =>
              vres = "False"
        /\ C15_FallbackFailed => vres = "False"

\* The call ended with False after the decode of the fallback raised
\* CouldntDecodeError.
C15_Witness ==
    /\ vpc = "done"
    /\ vres = "False"
    /\ C15_FallbackFailed
    /\ vin.decode.kind = "CouldntDecodeError"

\* The positions of seq, as a set.
C19_Range(seq) == {seq[k] : k \in 1..Len(seq)}

\* C19: the tracks are attempted once each, in list order; a track whose
\* download_song raised or returned no path is in failed_songs, one that
\* returned a path is in downloaded_songs, never in both; when main is past
\* the loop every track has been attempted and the two lists together have
\* len(tracks) elements.
C19_EveryTrackOnce ==
    /\ attempted = [k \in 1..Len(attempted) |-> k]
    /\ Len(outcomes) = Len(attempted)
    /\ Len(attempted) <= nTracks
    /\ Len(downloaded_songs) + Len(failed_songs) = Len(attempted)
    /\ C19_Range(downloaded_songs) =
          {k \in 1..Len(outcomes) : outcomes[k] = "path"}
    /\ C19_Range(failed_songs) =
          {k \in 1..Len(outcomes) : outcomes[k] # "path"}
    /\ (mpc \in {"summary", "done"} /\ Len(attempted) >= 1) =>
          /\ Len(attempted) = nTracks
          /\ Len(downloaded_songs) + Len(failed_songs) = nTracks

\* Three tracks: the first raised an unexpected exception, the second
\* returned no path, the third was downloaded; main has returned.
C19_Witness ==
    /\ mpc = "done"
    /\ mainResult = "returned"
    /\ outcomes = <<"Exception", "nopath", "path">>
    /\ failed_songs = <<1, 2>>
    /\ downloaded_songs = <<3>>

\* C20: with a credential missing, main reports the configuration error
\* and returns; the downloader is never constructed, the playlist never
\* fetched and download_song never called.
C20_NoAttemptWithoutCredentials ==
    (mpc # "off" /\ (~credentials.id \/ ~credentials.secret)) =>
        /\ constructions = 0
        /\ fetches = 0
        /\ attempted = <<>>
        /\ mpc \in {"start", "done"}
        /\ mpc = "done" =>
              (reports = <<"credentials">> /\ mainResult = "returned")

\* Only the client secret is missing and main has returned.
C20_Witness ==
    /\ mpc = "done"
    /\ credentials = [id |-> TRUE, secret |-> FALSE]
    /\ reports = <<"credentials">>
    /\ mainResult = "returned"

\* C21: an entry with neither webpage_url nor url leaves the prefilter
\* discarded, with no probe and no download issued for it, and the loop is
\* at the next rank; no entry without a locator is ever at the probe or the
\* download step.
C21_NoLocatorDiscarded ==
    [][/\ (pc = "prefilter" /\ ~cur.url) =>
            /\ pc' = "consider"
            /\ status'[i] = "closed"
            /\ i' = i + 1
            /\ n' = n
            /\ raw' = raw
       /\ pc' \in {"probe", "probed", "download"} => cur'.url]_vars

\* The first entry had no locator and was discarded without a probe; the
\* second entry, which has one, is under consideration.
C21_Witness ==
    /\ pc = "prefilter"
    /\ i = 2
    /\ status[1] = "closed"
    /\ cur.url
    /\ n.probe = 0
    /\ n.download = 0

\* C22: the download of candidate j either returns the raw path, and then
\* the raw file exists in the workspace, or returns nothing (an error was
\* raised or no file materialised), and then the candidate is closed and
\* the loop is at candidate j+1 of the same source; whenever the attempt
\* has returned a raw path the file exists.
C22_DownloadFailureAdvances ==
    [][/\ pc = "download" =>
            /\ n'.download = n.download + 1
            /\ \/ /\ raw' = <<SourceName, i>>
                  /\ "raw" \in tempFiles'
                  /\ pc' = "attempt_returned"
               \/ /\ raw' = <<>>
                  /\ pc' = "consider"
                  /\ status'[i] = "closed"
                  /\ i' = i + 1
                  /\ src' = src
                  /\ tempFiles' = tempFiles
       /\ (pc' = "attempt_returned" /\ raw' # <<>>) =>
            "raw" \in tempFiles']_vars

\* The download of the first candidate failed and the second candidate of
\* the same source was downloaded.
C22_Witness ==
    /\ pc = "attempt_returned"
    /\ raw = <<"SoundCloud", 2>>
    /\ n.download = 2
    /\ status[1] = "closed"
    /\ "raw" \in tempFiles

\* The transcode of the downloaded candidate is failing in this step.
C23_TranscodeFails ==
    pc = "attempt_returned" /\ raw # <<>> /\ pc' # "validate"

C24_ValidationFails ==
    pc = "validate" /\ ~validate_mp3_320kbps(finalFile)

C25_Result == sanitize_filename(text).value

\* C25: when sanitize_filename returns, the value sanitizes to itself, and
\* it holds no invalid character, no whitespace, no two underscores in a
\* row and no underscore at either end; the value is the one the function
\* computes step by step.
C25_IdempotentAndClean ==
    (spc \in {"done", "called"} /\ sres = "returned") =>
        /\ swork = C25_Result
        /\ sanitize_filename(TextOf(swork)) =
              [raises |-> "none", value |-> swork]
        /\ swork # <<>>
        /\ \A k \in 1..Len(swork) :
              /\ swork[k] \notin InvalidChars
              /\ swork[k] \notin WhitespaceChars
              /\ k < Len(swork) => ~(swork[k] = "_" /\ swork[k + 1] = "_")
        /\ swork[1] # "_"
        /\ swork[Len(swork)] # "_"

\* A text with an invalid character next to whitespace inside and an
\* underscore at the end was sanitized to a shorter value.
C25_Witness ==
    /\ spc = "done"
    /\ sres = "returned"
    /\ text.chars = <<"a", "/", " ", "_">>
    /\ swork = <<"a">>

\* The argument is a text made only of invalid characters, whitespace and
\* underscores (a blank and an empty text included).
C26_NothingToKeep ==
    /\ text.isStr
    /\ \A k \in 1..Len(text.chars) :
          text.chars[k] \in InvalidChars \cup WhitespaceChars \cup {"_"}

\* The name the caller goes on with is the last path segment of the text.
C26_LastSegment ==
    LET m == Len(text.chars) - Len(call.name) IN
    /\ m >= 0
    /\ call.name = SubSeq(text.chars, m + 1, Len(text.chars))
    /\ \A k \in 1..Len(call.name) : call.name[k] # "/"
    /\ m = 0 \/ text.chars[m] = "/"

\* C26: sanitize_filename raises TypeError exactly for an argument that is
\* no text and ValueError exactly for a text with nothing to keep; no
\* exception of it leaves a caller: the caller goes on with the sanitized
\* value, or after a failure with the last path segment of the text.
C26_RaisesAndCallersFallBack ==
    /\ spc \in {"done", "called"} =>
          /\ sres \in {"returned", "TypeError", "ValueError"}
          /\ sres = "TypeError" <=> ~text.isStr
          /\ sres = "ValueError" <=> C26_NothingToKeep
    /\ spc = "called" =>
          /\ ~call.aborted
          /\ call.caller \in Callers
          /\ sres = "returned" => call.name = swork
          /\ sres # "returned" => C26_LastSegment

\* The raw download name of a track whose name and artist hold nothing to
\* keep: sanitize_filename raised ValueError and the caller went on with
\* the text after its last separator.
C26_Witness ==
    /\ spc = "called"
    /\ sres = "ValueError"
    /\ call.caller = "raw_name"
    /\ text.chars = <<"?", "/", " ", "?">>
    /\ call.name = <<" ", "?">>
    /\ ~call.aborted

\* C27 as stated: any two distinct tracks of a playlist get distinct final
\* artifact paths and distinct temporary workspaces.
C27_Original ==
    \A j, k \in 1..Len(workspaces) :
        j # k =>
            /\ finalPaths[j] # finalPaths[k]
            /\ workspaces[j] # workspaces[k]

\* The positions, in playlist order, of the first m items that have a
\* track with a name, an artists list and a duration.
C28_Qualifying(m) ==
    SelectSeq([k \in 1..m |-> k],
              LAMBDA k : /\ playlist[k].track
                         /\ playlist[k].name
                         /\ playlist[k].artists
                         /\ playlist[k].duration)

C29_AtMostThreePerSource ==
    /\ \A r \in (MAX_SEARCH_RESULTS_PER_SOURCE + 1)..MaxEntries :
          status[r] = "none"
    /\ pc \in {"prefilter", "probe", "probed", "download"} =>
          i <= MAX_SEARCH_RESULTS_PER_SOURCE
    /\ Len(searched) <= 2
    /\ n.probe <= 6 /\ n.probe <= MAX_SEARCH_RESULTS_PER_SOURCE * src
    /\ n.download <= 6 /\ n.download <= MAX_SEARCH_RESULTS_PER_SOURCE * src

\* Both sources were searched, the second returned four entries, six
\* probes and six downloads were issued and the fourth entry was left alone.
C29_Witness ==
    /\ pc = "attempt_returned"
    /\ src = 2
    /\ nEntries = 4
    /\ status[4] = "none"
    /\ n.probe = 6
    /\ n.download = 6

\* The file found at the final path is about to fail validation.
C30_InvalidExisting ==
    pc = "check_existing" /\ finalFile.exists /\ ~finalFile.valid

\* C30: an existing file that fails validation is left in place and the
\* call goes on to the cover fetch with the same locals as when no file
\* exists (only the validation is counted); the cover is then fetched when
\* the track has one, and on success the file at the final path is the one
\* transcoded from the winning source and validated.
C30_InvalidExistingFallsThrough ==
    [][/\ (C30_InvalidExisting \/ (pc = "check_existing" /\ ~finalFile.exists))
            => /\ pc' = "cover"
               /\ ~cached'
               /\ finalFile' = finalFile
               /\ <<src, searched, status, raw, coverPath, won, ioFailed>>'
                     = <<src, searched, status, raw, coverPath, won, ioFailed>>
               /\ n' = IF finalFile.exists
                       THEN [n EXCEPT !.validate = @ + 1] ELSE n
       /\ (src' >= 1 /\ ~cached') => (n'.cover = 1 <=> hasCover')
       /\ (pc' = "returned" /\ won') =>
            /\ wonSource' \in SourceNames
            /\ finalFile' = File(TRUE, wonSource')]_vars

\* An invalid existing file was replaced: the cover was fetched, the first
\* source's candidate was transcoded over it and validated.
C30_Witness ==
    /\ pc = "returned"
    /\ won
    /\ ~cached
    /\ n.validate = 2
    /\ n.cover = 1
    /\ searched = <<"SoundCloud">>
    /\ finalFile = File(TRUE, "SoundCloud")

\* The workspace holds something an earlier call left behind.
C31_StaleContents == "stale" \in tempFiles

C32_Original ==
    (pc = "raised" /\ "temp" \notin ioFailed) => (~tempDir /\ tempFiles = {})

\* C33: the descriptor changes only in the step that validates a
\* transcoded candidate, and only by download_source becoming the source of
\* that candidate: the file at the final path is valid, the call is not on
\* the cached path and it ends as a success.  A call that takes the cached
\* path or ends in exhaustion therefore holds no step that changes it.
C33_OnlyDownloadSourceAfterValidation ==
    [][/\ hasCover' = hasCover
       /\ trackSource' # trackSource =>
            /\ pc = "validate"
            /\ finalFile.exists /\ finalFile.valid
            /\ finalFile' = finalFile
            /\ trackSource' = SourceName
            /\ wonSource' = SourceName
            /\ won' /\ ~cached'
       /\ (cached \/ (pc # "validate" /\ ~won)) => trackSource' = trackSource
       /\ (pc' = "returned" /\ pc # "returned" /\ (cached' \/ ~won')) =>
            trackSource' = trackSource
       /\ (won /\ pc' # "workspace") => won']_vars

\* The first source's candidate failed validation, the second source's
\* validated, and the descriptor carries the second source.
C33_Witness ==
    /\ pc = "returned"
    /\ won
    /\ n.validate = 2
    /\ searched = <<"SoundCloud", "YouTube">>
    /\ ~finalFile.valid \/ finalFile.from = "YouTube"
    /\ trackSource = "YouTube"

\* The probe reports the duration as a string of s seconds, the expected
\* duration is 1000 * s ms, the file is an MP3 of the right bitrate and the
\* tolerance is the default.
C34_SecondsString ==
    /\ vin.exists
    /\ vin.probe = "dict"
    /\ is_format_mp3(vin) /\ is_approx_320kbps(vin)
    /\ vin.duration.kind = "str"
    /\ ~vin.duration.below
    /\ vin.expected = vin.duration.v
    /\ vin.tolerance = DEFAULT_DURATION_TOLERANCE_MS

\* C34 as stated: for such a file the parsed duration is the true one and
\* validation passes, for every s.
C34_Original ==
    (vpc = "done" /\ C34_SecondsString) =>
        /\ vactual = vin.duration.v
        /\ vres = "True"

\* C35 as stated: the pair a call returns has a path if and only if it has
\* a source name, and a path is the final path of the track.
C35_Original ==
    result.kind = "returned" =>
        /\ result.path # "none" <=> result.source # "none"
        /\ result.path \in {"none", "final"}

\* C36: from the validation that accepts the file, existing or freshly
\* transcoded, to the return of its path, the call is past every transcode
\* and removal of the final path and the file is the validated one: a
\* returned path names an existing file that passed validation in this
\* call, and nothing touched it afterwards.
C36_ValidatedLast ==
    /\ (won \/ cached) =>
          /\ finalFile.exists /\ finalFile.valid
          /\ n.validate >= 1
          /\ pc \in {"read_sidecar", "cleanup", "finish", "returned", "raised"}
    /\ won => (~cached /\ finalFile.from = wonSource /\ pc # "raised")
    /\ cached => (finalFile.from = "old" /\ n.transcode = 0 /\ n.validate = 1)
    /\ (pc = "returned" /\ result.path # "none") =>
          /\ result.path = "final"
          /\ won \/ cached

\* An invalid existing file was validated and replaced; the first source's
\* transcoded file failed validation, the second source's passed and its
\* path was returned.
C36_Witness ==
    /\ pc = "returned"
    /\ result = Returned("final", "YouTube")
    /\ n.transcode = 2
    /\ n.validate = 3
    /\ finalFile = File(TRUE, "YouTube")

\* The previous call was a fresh success: it returned the path of a file it
\* had transcoded and validated itself.
C37_AfterFreshSuccess == prev.path = "final" /\ ~prevCached

\* C37 as stated: the call after a fresh success returns the same pair
\* through the cached path with no network call, whatever the sidecar
\* write of the first call did.  The calls that raise are left out, so that
\* a violation is a returned pair that differs from the first.
C37_Original ==
    (C37_AfterFreshSuccess /\ pc = "returned") =>
        /\ result = prev
        /\ cached
        /\ NoNetwork

\* C37 amended: the call after a fresh success issues no network call and
\* no transcode and never enters the acquisition; when it returns, it
\* returns the same path through the cached path, and the same source
\* whenever the sidecar on disk records it (the first call's write
\* succeeded, or an older sidecar already named that source).
C37_RepeatIsCached ==
    C37_AfterFreshSuccess =>
        /\ NoNetwork
        /\ n.transcode = 0
        /\ pc \in {"workspace", "check_existing", "read_sidecar", "returned",
                    "raised"}
        /\ pc = "returned" =>
              /\ cached
              /\ result = Returned("final", ExistingSource(sidecar).source)
              /\ sidecar = prev.source => result = prev

\* The second call returned the pair of the first through the cached path.
C37_Witness ==
    /\ C37_AfterFreshSuccess
    /\ pc = "returned"
    /\ cached
    /\ prev = Returned("final", "YouTube")
    /\ result = prev

\* C38 as stated: when process_tracks has handled every track, each track
\* listed in downloaded_songs has a file at its path that validates against
\* that track's duration.
C38_Original ==
    Len(attempted) = Len(tracks) =>
        \A j \in 1..Len(downloaded_songs) :
            ValidFor(FileAt(finalPaths[downloaded_songs[j]]),
                     tracks[downloaded_songs[j]])

\* C39 as stated: when the call has returned, a sidecar exists only if a
\* valid artifact exists at the final path.
C39_Original ==
    (pc = "returned" /\ sidecar # "none") =>
        (finalFile.exists /\ finalFile.valid)

\* C39 amended: the sidecar is written only in the step that validates a
\* transcoded candidate, next to the valid artifact, which then stays as it
\* is until the call returns; a call that validates no candidate, and so
\* ends in exhaustion, neither writes nor removes a sidecar: the one that
\* was there before the call is still there.
C39_SidecarOnlyWithValidArtifact ==
    [][/\ sidecar' # sidecar =>
            /\ pc = "validate"
            /\ finalFile.exists /\ finalFile.valid
            /\ sidecar' \in {SourceName, "corrupt"}
            /\ won'
       /\ (~won /\ pc # "validate") => sidecar' = sidecar
       /\ (pc = "validate" /\ ~won') => sidecar' = sidecar
       /\ (won /\ pc' # "workspace") =>
            /\ sidecar' = sidecar
            /\ finalFile' = finalFile /\ finalFile.valid]_vars

\* Exhaustion that started from an invalid existing artifact with a
\* sidecar: the artifact is gone, the sidecar is still there.
C39_Witness ==
    /\ pc = "returned"
    /\ result = Returned("none", "none")
    /\ n.validate = 1
    /\ n.transcode = 0
    /\ searched = <<"SoundCloud", "YouTube">>
    /\ ~finalFile.exists
    /\ sidecar = "SoundCloud"

\* The operations one call may issue: one cover fetch, two searches, two
\* transcodes and three validations.
C40_Bounds ==
    /\ n.cover <= 1
    /\ Len(searched) <= 2
    /\ n.transcode <= 2
    /\ n.validate <= 3

\* C40 as stated, for download_song: a call stays within the bounds and ends
\* in success or exhaustion, never in an exception.  The OSError of creating
\* or removing the workspace itself is left out, so that a violation is an
\* exception of the sidecar read or of a source attempt.
C40_Original ==
    /\ C40_Bounds
    /\ pc = "raised" => (result = Raised("OSError") /\ src = 0)
====
